---- MODULE Spec2Model ----
(***************************************************************************)
(* A model of the AI Patient Simulator (app.py): the keyword classifier,   *)
(* the rapport update rule, the generator request and the Streamlit        *)
(* session handlers (load, start, therapist turn, end, reset).             *)
(*                                                                         *)
(* A text is a string; CharsOf spells out its characters, and lower-casing, *)
(* substring search and the regular expressions work on the characters, as *)
(* Python computes them.  Rapport,                                         *)
(* openness and technique scores are fixed-point numbers counted in units  *)
(* of 1/Scale; Scale is chosen so that every division the code performs    *)
(* on the values of this model is exact.                                   *)
(***************************************************************************)
EXTENDS Integers, Sequences, FiniteSets, TLC

VARIABLES
    messages,          \* st.session_state.messages: sequence of <<role, text>>
    patient_config,    \* st.session_state.patient_config: NoConfig or a PatientConfig
    session_active,    \* st.session_state.session_active
    rapport_level,     \* st.session_state.rapport_level, in units of 1/Scale
    patient_openness,  \* st.session_state.patient_openness, in units of 1/Scale
    voice_mode,        \* st.session_state.voice_mode
    voice_input,       \* st.session_state.voice_input
    patient_audio,     \* st.session_state["patient_audio_<i>"]: index -> audio
    show_actions,      \* st.session_state.show_actions
    query_voice_input, \* the voice_input query parameter of the page's URL
    engine_turns,      \* engine specification: the number of updates made
    engine_traits,     \* engine specification: the CoreTraits of the patient
    utterance,         \* classifier specification: the characters of the message
    event              \* what the last script run did (observation only)

vars == << messages, patient_config, session_active, rapport_level,
           patient_openness, voice_mode, voice_input, patient_audio,
           query_voice_input, show_actions, engine_turns, engine_traits, utterance, event >>

----------------------------------------------------------------------------
(* Numbers *)

\* One unit of the fixed-point representation: 1.0 is Scale units.
Scale == 3 * 10000

Min(a, b) == IF a <= b THEN a ELSE b
Max(a, b) == IF a >= b THEN a ELSE b

\* x * (num/den) for a fixed-point x.
Times(x, num, den) == (x * num) \div den

\* The product of two fixed-point numbers.
Mul(x, y) == (x * y) \div Scale

----------------------------------------------------------------------------
(* Text *)

UpperCase == <<"A","B","C","D","E","F","G","H","I","J","K","L","M","N","O","P","Q","R","S","T","U","V","W","X","Y","Z">>
LowerCase == <<"a","b","c","d","e","f","g","h","i","j","k","l","m","n","o","p","q","r","s","t","u","v","w","x","y","z">>

\* The characters of each text of the model.
CharsOf ==
    ( "understand" :>
          <<"u","n","d","e","r","s","t","a","n","d">> @@
      "makes sense" :>
          <<"m","a","k","e","s"," ","s","e","n","s","e">> @@
      "hear you" :>
          <<"h","e","a","r"," ","y","o","u">> @@
      "valid" :>
          <<"v","a","l","i","d">> @@
      "difficult" :>
          <<"d","i","f","f","i","c","u","l","t">> @@
      "feel" :>
          <<"f","e","e","l">> @@
      "sounds" :>
          <<"s","o","u","n","d","s">> @@
      "imagine" :>
          <<"i","m","a","g","i","n","e">> @@
      "must be" :>
          <<"m","u","s","t"," ","b","e">> @@
      "experiencing" :>
          <<"e","x","p","e","r","i","e","n","c","i","n","g">> @@
      "what do you mean" :>
          <<"w","h","a","t"," ","d","o"," ","y","o","u"," ","m","e","a","n">> @@
      "tell me more" :>
          <<"t","e","l","l"," ","m","e"," ","m","o","r","e">> @@
      "help me understand" :>
          <<"h","e","l","p"," ","m","e"," ","u","n","d","e","r","s","t","a","n","d">> @@
      "you're saying" :>
          <<"y","o","u","'","r","e"," ","s","a","y","i","n","g">> @@
      "sounds like" :>
          <<"s","o","u","n","d","s"," ","l","i","k","e">> @@
      "it seems" :>
          <<"i","t"," ","s","e","e","m","s">> @@
      "you feel" :>
          <<"y","o","u"," ","f","e","e","l">> @@
      "thank you" :>
          <<"t","h","a","n","k"," ","y","o","u">> @@
      "appreciate" :>
          <<"a","p","p","r","e","c","i","a","t","e">> @@
      "brave" :>
          <<"b","r","a","v","e">> @@
      "strength" :>
          <<"s","t","r","e","n","g","t","h">> @@
      "trust" :>
          <<"t","r","u","s","t">> @@
      "thought" :>
          <<"t","h","o","u","g","h","t">> @@
      "thinking" :>
          <<"t","h","i","n","k","i","n","g">> @@
      "evidence" :>
          <<"e","v","i","d","e","n","c","e">> @@
      "alternative" :>
          <<"a","l","t","e","r","n","a","t","i","v","e">> @@
      "realistic" :>
          <<"r","e","a","l","i","s","t","i","c">> @@
      "okay" :>
          <<"o","k","a","y">> @@
      "alright" :>
          <<"a","l","r","i","g","h","t">> @@
      "understandable" :>
          <<"u","n","d","e","r","s","t","a","n","d","a","b","l","e">> @@
      "human" :>
          <<"h","u","m","a","n">> @@
      "normal" :>
          <<"n","o","r","m","a","l">> @@
      "Borderline" :>
          <<"B","o","r","d","e","r","l","i","n","e">> @@
      "Depression" :>
          <<"D","e","p","r","e","s","s","i","o","n">> @@
      "Anxiety" :>
          <<"A","n","x","i","e","t","y">> @@
      "male" :>
          <<"m","a","l","e">> @@
      "Male" :>
          <<"M","a","l","e">> @@
      "Female" :>
          <<"F","e","m","a","l","e">> @@
      "Borderline Personality Disorder" :>
          <<"B","o","r","d","e","r","l","i","n","e"," ","P","e","r","s","o","n","a","l","i","t","y"," ","D","i","s","o","r","d","e","r">> @@
      "Major Depressive Disorder" :>
          <<"M","a","j","o","r"," ","D","e","p","r","e","s","s","i","v","e"," ","D","i","s","o","r","d","e","r">> @@
      "Generalized Anxiety Disorder" :>
          <<"G","e","n","e","r","a","l","i","z","e","d"," ","A","n","x","i","e","t","y"," ","D","i","s","o","r","d","e","r">> @@
      "I'm having trouble responding right now." :>
          <<"I","'","m"," ","h","a","v","i","n","g"," ","t","r","o","u","b","l","e"," ","r","e","s","p","o","n","d","i","n","g"," ","r","i","g","h","t"," ","n","o","w",".">> @@
      "I HEAR you" :>
          <<"I"," ","H","E","A","R"," ","y","o","u">> @@
      "evidence?" :>
          <<"e","v","i","d","e","n","c","e","?">> @@
      "  " :>
          <<" "," ">> @@
      "*sighs* I am tired" :>
          <<"*","s","i","g","h","s","*"," ","I"," ","a","m"," ","t","i","r","e","d">> @@
      "VALID" :>
          <<"V","A","L","I","D">> @@
      "hear" :>
          <<"h","e","a","r">> @@
      "you" :>
          <<"y","o","u">> @@
      " " :>
          <<" ">> @@
      "Adjustment Disorder" :>
          <<"A","d","j","u","s","t","m","e","n","t"," ","D","i","s","o","r","d","e","r">> @@
      "I am tired" :>
          <<"I"," ","a","m"," ","t","i","r","e","d">> )

Chars(text) == CharsOf[text]

\* str.lower() on one character (ASCII letters).
LowerChar(c) ==
    IF \E i \in 1..Len(UpperCase) : UpperCase[i] = c
    THEN LowerCase[CHOOSE i \in 1..Len(UpperCase) : UpperCase[i] = c]
    ELSE c

\* Mutant of Lower: the message is searched as it was typed.
LowerOmitted(s) == s

\* str.lower()
Lower(s) == [i \in 1..Len(s) |-> LowerChar(s[i])]

\* Mutant of Contains: some character of sub occurs in s.
ContainsSomeCharacter(s, sub) ==
    \E i \in 1..Len(s), j \in 1..Len(sub) : s[i] = sub[j]

\* Python's "sub in s" for strings.
Contains(s, sub) ==
    \E i \in 0..(Len(s) - Len(sub)) : SubSeq(s, i + 1, i + Len(sub)) = sub

----------------------------------------------------------------------------
(* TherapeuticAnalyzer *)

THERAPEUTIC_TECHNIQUES ==
    [ validation |->
          << "understand", "makes sense", "hear you", "valid", "difficult" >>,
      empathy |->
          << "feel", "sounds", "imagine", "must be", "experiencing" >>,
      clarification |->
          << "what do you mean", "tell me more", "help me understand" >>,
      reflection |->
          << "you're saying", "sounds like", "it seems", "you feel" >>,
      rapport |->
          << "thank you", "appreciate", "brave", "strength", "trust" >>,
      cbt |->
          << "thought", "thinking", "evidence", "alternative", "realistic" >>,
      acceptance |->
          << "okay", "alright", "understandable", "human", "normal" >> ]

Techniques == DOMAIN THERAPEUTIC_TECHNIQUES

\* sum(1 for keyword in keywords if keyword in message_lower)
RECURSIVE CountMatches(_, _)
CountMatches(keywords, message_lower) ==
    IF keywords = << >> THEN 0
    ELSE (IF Contains(message_lower, Chars(Head(keywords))) THEN 1 ELSE 0)
         + CountMatches(Tail(keywords), message_lower)

\* min(score / len(keywords), 1.0)
TechniqueScore(keywords, message_lower) ==
    Min((CountMatches(keywords, message_lower) * Scale) \div Len(keywords), Scale)

\* analyze_response: the loop over the techniques
ScoreAll(message_lower) ==
    [technique \in Techniques |->
        TechniqueScore(THERAPEUTIC_TECHNIQUES[technique], message_lower)]

\* TherapeuticAnalyzer.analyze_response, on the characters of the message
AnalyzeChars(message_chars) ==
    CHOOSE technique_scores \in
        { ScoreAll(message_lower) : message_lower \in { Lower(message_chars) } } :
        TRUE

\* TherapeuticAnalyzer.analyze_response on a text of the model
analyze_response(therapist_message) == AnalyzeChars(Chars(therapist_message))

\* technique_scores.get(name, 0)
ScoreGet(technique_scores, name) ==
    IF name \in DOMAIN technique_scores THEN technique_scores[name] ELSE 0

\* Mutant of positive_impact: acceptance weighs 0.3 like the others.
positive_impact_equal_weights(technique_scores) ==
    Times(ScoreGet(technique_scores, "validation"), 3, 10)
    + Times(ScoreGet(technique_scores, "empathy"), 3, 10)
    + Times(ScoreGet(technique_scores, "acceptance"), 3, 10)

positive_impact(technique_scores) ==
    Times(ScoreGet(technique_scores, "validation"), 3, 10)
    + Times(ScoreGet(technique_scores, "empathy"), 3, 10)
    + Times(ScoreGet(technique_scores, "acceptance"), 2, 10)

challenging_impact(technique_scores) == ScoreGet(technique_scores, "cbt")

\* Mutant of defensiveness_modifier: defensiveness is counted from the middle
\* of its range, (5 - defensiveness) / 10.
defensiveness_modifier_centred(patient_traits) ==
    ((5 - patient_traits.defensiveness) * Scale) \div 10

defensiveness_modifier(patient_traits) ==
    ((10 - patient_traits.defensiveness) * Scale) \div 10

\* Mutant of trust_modifier: trust counts for at least 1.
trust_modifier_floored(patient_traits) ==
    (Max(1, patient_traits.trust_level) * Scale) \div 10

trust_modifier(patient_traits) == (patient_traits.trust_level * Scale) \div 10

\* Mutant of ClampChange: the change is not clamped.
ClampChangeUnclamped(rapport_change) == rapport_change

\* max(-1.0, min(1.0, rapport_change))
ClampChange(rapport_change) == Max(-Scale, Min(Scale, rapport_change))

\* TherapeuticAnalyzer.calculate_rapport_change
calculate_rapport_change(technique_scores, patient_traits) ==
    LET rapport_change ==
            Mul(Mul(positive_impact(technique_scores) * 2
                        - Times(challenging_impact(technique_scores), 5, 10),
                    defensiveness_modifier(patient_traits)),
                trust_modifier(patient_traits))
    IN  ClampChange(rapport_change)

\* max(0, min(10, level + change))
ClampLevel(level) == Max(0, Min(10 * Scale, level))

\* Mutant of UpdateRapport: the change is applied twice.
UpdateRapportTwice(rapport, rapport_change) ==
    ClampLevel(rapport + 2 * rapport_change)

\* handle_therapist_response: the updated rapport_level
UpdateRapport(rapport, rapport_change) == ClampLevel(rapport + rapport_change)

\* handle_therapist_response: the updated patient_openness
UpdateOpenness(openness, rapport_change) ==
    ClampLevel(openness + Times(rapport_change, 5, 10))
----------------------------------------------------------------------------
(* Data structures and patient templates *)

\* CoreTraits(): every trait at its default 5.0
CoreTraits ==
    [ emotional_intensity |-> 5,
      mood_stability |-> 5,
      anger_reactivity |-> 5,
      emotional_awareness |-> 5,
      trust_level |-> 5,
      attachment_anxiety |-> 5,
      boundary_awareness |-> 5,
      social_withdrawal |-> 5,
      catastrophic_thinking |-> 5,
      black_white_thinking |-> 5,
      self_criticism |-> 5,
      concentration_ability |-> 5,
      verbal_expressiveness |-> 5,
      emotional_openness |-> 5,
      defensiveness |-> 5,
      response_detail_level |-> 5 ]

\* DisorderTraits(): every trait at its default 0.0, energy_level at 10.0
DisorderTraits ==
    [ abandonment_sensitivity |-> 0,
      identity_instability |-> 0,
      impulsivity |-> 0,
      self_harm_risk |-> 0,
      dissociation_frequency |-> 0,
      worry_intensity |-> 0,
      physical_anxiety |-> 0,
      avoidance_behaviors |-> 0,
      perfectionism |-> 0,
      control_need |-> 0,
      hopelessness |-> 0,
      energy_level |-> 10,
      anhedonia |-> 0,
      guilt_shame |-> 0,
      suicidal_ideation |-> 0 ]

\* PatientConfig(...)
PatientConfig(name, age, gender, diagnosis, background_story, core_traits, disorder_traits, session_context) ==
    [ name |-> name, age |-> age, gender |-> gender, diagnosis |-> diagnosis,
      background_story |-> background_story, core_traits |-> core_traits,
      disorder_traits |-> disorder_traits, session_context |-> session_context ]

PATIENT_TEMPLATES ==
    [ emma_bpd |-> PatientConfig(
          "Emma", 19,
          "Female",
          "Borderline Personality Disorder",
          "College student, recent painful breakup, history of unstable relationships, struggles with self-image",
          [CoreTraits EXCEPT !.emotional_intensity = 9,
              !.mood_stability = 2,
              !.anger_reactivity = 8,
              !.trust_level = 3,
              !.attachment_anxiety = 9,
              !.boundary_awareness = 2,
              !.black_white_thinking = 8,
              !.self_criticism = 9,
              !.emotional_openness = 7,
              !.defensiveness = 8],
          [DisorderTraits EXCEPT !.abandonment_sensitivity = 9,
              !.identity_instability = 8,
              !.impulsivity = 7,
              !.self_harm_risk = 6,
              !.dissociation_frequency = 5],
          "Emma comes in distressed after her boyfriend broke up with her yesterday. She's oscillating between anger and despair."),
      david_mdd |-> PatientConfig(
          "David", 45,
          "Male",
          "Major Depressive Disorder",
          "Recently unemployed executive, financial stress, feels like a failure, withdrawn from family",
          [CoreTraits EXCEPT !.mood_stability = 2,
              !.emotional_awareness = 3,
              !.trust_level = 4,
              !.social_withdrawal = 8,
              !.catastrophic_thinking = 8,
              !.self_criticism = 9,
              !.concentration_ability = 3,
              !.verbal_expressiveness = 3,
              !.emotional_openness = 2,
              !.response_detail_level = 2],
          [DisorderTraits EXCEPT !.hopelessness = 8,
              !.energy_level = 2,
              !.anhedonia = 8,
              !.guilt_shame = 9,
              !.suicidal_ideation = 4],
          "David lost his job 3 months ago. He speaks slowly, avoids eye contact, and gives minimal responses."),
      sarah_gad |-> PatientConfig(
          "Sarah", 28,
          "Female",
          "Generalized Anxiety Disorder",
          "New mother, perfectionist tendencies, overwhelmed by responsibilities, constant worrying",
          [CoreTraits EXCEPT !.emotional_intensity = 7,
              !.mood_stability = 4,
              !.trust_level = 6,
              !.attachment_anxiety = 7,
              !.catastrophic_thinking = 9,
              !.concentration_ability = 3,
              !.verbal_expressiveness = 8,
              !.emotional_openness = 6,
              !.defensiveness = 5],
          [DisorderTraits EXCEPT !.worry_intensity = 9,
              !.physical_anxiety = 8,
              !.avoidance_behaviors = 6,
              !.perfectionism = 9,
              !.control_need = 8],
          "Sarah is a new mother who can't stop worrying about everything that could go wrong. She speaks rapidly and seeks constant reassurance.") ]


TemplateNames == DOMAIN PATIENT_TEMPLATES

\* st.session_state.patient_config holds None or a reference to one of the
\* templates: the model holds the template's name.
NoConfig == "None"

Config(reference) == PATIENT_TEMPLATES[reference]

----------------------------------------------------------------------------
(* AIPatientSimulator *)

\* AIPatientSimulator._traits_to_descriptions: the clauses, in order
Clause(cond, text) == IF cond THEN << text >> ELSE << >>

traits_to_descriptions(traits) ==
    LET descriptions ==
            Clause(traits.emotional_intensity > 7,
                   "Your emotions are very intense and overwhelming")
            \o Clause(traits.mood_stability < 3,
                   "Your mood changes rapidly and unpredictably")
            \o Clause(traits.trust_level < 4,
                   "You have difficulty trusting others, including therapists")
            \o Clause(traits.attachment_anxiety > 7,
                   "You fear abandonment and rejection intensely")
            \o Clause(traits.catastrophic_thinking > 7,
                   "You tend to imagine worst-case scenarios")
            \o Clause(traits.self_criticism > 7,
                   "You are very hard on yourself and self-critical")
            \o (IF traits.verbal_expressiveness < 4
                THEN << "You tend to give short, minimal responses" >>
                ELSE Clause(traits.verbal_expressiveness > 7,
                            "You tend to be very talkative and expressive"))
            \o Clause(traits.defensiveness > 7,
                   "You become defensive easily when challenged")
    IN  IF descriptions # << >> THEN descriptions
        ELSE << "Generally typical patterns" >>

\* AIPatientSimulator._disorder_traits_to_descriptions
disorder_traits_to_descriptions(traits, diagnosis) ==
    LET descriptions ==
            IF Contains(Chars(diagnosis), Chars("Borderline"))
            THEN Clause(traits.abandonment_sensitivity > 6,
                        "Intense fear of being abandoned or rejected")
                 \o Clause(traits.identity_instability > 6,
                        "Uncertain about who you are and what you want")
                 \o Clause(traits.impulsivity > 6,
                        "Tendency to act impulsively when distressed")
            ELSE IF Contains(Chars(diagnosis), Chars("Depression"))
            THEN Clause(traits.hopelessness > 6,
                        "Feeling hopeless about the future")
                 \o Clause(traits.energy_level < 4,
                        "Very low energy and motivation")
                 \o Clause(traits.anhedonia > 6,
                        "Little interest or pleasure in activities")
            ELSE IF Contains(Chars(diagnosis), Chars("Anxiety"))
            THEN Clause(traits.worry_intensity > 6,
                        "Constant, intense worrying about many things")
                 \o Clause(traits.physical_anxiety > 6,
                        "Physical symptoms of anxiety")
                 \o Clause(traits.perfectionism > 7,
                        "Very high standards and fear of making mistakes")
            ELSE << >>
    IN  IF descriptions # << >> THEN descriptions ELSE << "Mild symptoms" >>

\* f"{level:.1f}": the level in tenths, rounded to the nearest tenth
FormatOneDecimal(level) == (level * 10 + (Scale \div 2)) \div Scale

\* AIPatientSimulator.build_patient_prompt: the fields the prompt renders
build_patient_prompt(config, rapport, openness) ==
    [ name |-> config.name,
      age |-> config.age,
      gender |-> Lower(Chars(config.gender)),
      diagnosis |-> config.diagnosis,
      background_story |-> config.background_story,
      session_context |-> config.session_context,
      core_descriptions |-> traits_to_descriptions(config.core_traits),
      disorder_descriptions |->
          disorder_traits_to_descriptions(config.disorder_traits, config.diagnosis),
      rapport |-> FormatOneDecimal(rapport),
      openness |-> FormatOneDecimal(openness) ]

\* AIPatientSimulator.select_patient_voice
select_patient_voice(config) ==
    IF Lower(Chars(config.gender)) = Chars("male")
    THEN (IF config.age < 30 THEN "echo" ELSE "onyx")
    ELSE IF config.age < 25 THEN "nova"
    ELSE IF Contains(Chars(config.diagnosis), Chars("Anxiety")) THEN "shimmer"
    ELSE IF Contains(Chars(config.diagnosis), Chars("Depression")) THEN "alloy"
    ELSE "nova"

IsSpace(c) == c = " "

\* str.strip()
RECURSIVE Strip(_)
Strip(s) ==
    IF s = << >> THEN s
    ELSE IF IsSpace(Head(s)) THEN Strip(Tail(s))
    ELSE IF IsSpace(s[Len(s)]) THEN Strip(SubSeq(s, 1, Len(s) - 1))
    ELSE s

\* re.sub(r'\*[^*]*\*', '', text): every *...* span is removed, left to right
RECURSIVE RemoveActions(_)
RemoveActions(text) ==
    IF text = << >> THEN text
    ELSE IF Head(text) = "*" /\ \E j \in 2..Len(text) : text[j] = "*"
    THEN LET close == CHOOSE j \in 2..Len(text) :
                          /\ text[j] = "*"
                          /\ \A k \in 2..(j - 1) : text[k] # "*"
         IN  RemoveActions(SubSeq(text, close + 1, Len(text)))
    ELSE << Head(text) >> \o RemoveActions(Tail(text))

\* re.sub(r'\*(.*?)\*', r'***\1***', text): every *...* span is set in
\* bold italics, left to right
RECURSIVE EmphasizeActions(_)
EmphasizeActions(text) ==
    IF text = << >> THEN text
    ELSE IF Head(text) = "*" /\ \E j \in 2..Len(text) : text[j] = "*"
    THEN LET close == CHOOSE j \in 2..Len(text) :
                          /\ text[j] = "*"
                          /\ \A k \in 2..(j - 1) : text[k] # "*"
         IN  << "*", "*", "*" >> \o SubSeq(text, 2, close - 1) \o << "*", "*", "*" >>
             \o EmphasizeActions(SubSeq(text, close + 1, Len(text)))
    ELSE << Head(text) >> \o EmphasizeActions(Tail(text))

\* process_actions(text, show_actions), on the characters of the text
process_actions(text, show) ==
    IF show THEN EmphasizeActions(text) ELSE Strip(RemoveActions(text))

\* b"": no audio
NoAudio == << >>

\* Mutant of text_to_speech: when the speech service fails, a clip without
\* sound is returned in place of b"".
text_to_speech_placeholder(text, voice, tts_ok) ==
    << voice, IF tts_ok THEN Strip(RemoveActions(Chars(text))) ELSE << >> >>

\* AIPatientSimulator.text_to_speech; tts_ok is whether the speech service
\* answers.  The audio is the pair of the voice and the text that was spoken.
text_to_speech(text, voice, tts_ok) ==
    LET clean_text == Strip(RemoveActions(Chars(text)))
    IN  IF tts_ok THEN << voice, clean_text >> ELSE NoAudio

\* conversation_history[-6:]
HistoryWindow == 6

\* Mutant of LastEntries: the first n entries, conversation_history[:n].
FirstEntries(conversation_history, n) ==
    SubSeq(conversation_history, 1, Min(n, Len(conversation_history)))

LastEntries(conversation_history, n) ==
    SubSeq(conversation_history,
           Max(1, Len(conversation_history) - n + 1), Len(conversation_history))

TherapistPrefix == "Therapist: "

\* The role generate_patient_response gives the i-th entry (from 0) of the window.
WindowRole(i) == IF i % 2 = 0 THEN "user" ELSE "assistant"

\* generate_patient_response: the chat messages built for the generator
ChatMessages(system_prompt, conversation_history) ==
    LET window == LastEntries(conversation_history, HistoryWindow)
    IN  << [role |-> "system", content |-> system_prompt] >>
        \o [ k \in 1..Len(window) |->
               IF WindowRole(k - 1) = "user"
               THEN [role |-> "user", content |-> << TherapistPrefix, window[k] >>]
               ELSE [role |-> "assistant", content |-> << window[k] >>] ]

FallbackText == "I'm having trouble responding right now."

\* What the generator does with one request: it answers with a text, or the
\* call fails.
GeneratorReplies ==
    { "*sighs* I am tired" }

GeneratorOutcomes ==
    { [ok |-> TRUE, text |-> r] : r \in GeneratorReplies }
    \cup { [ok |-> FALSE, text |-> ""] }

\* Mutant of OnGeneratorFailure: the exception is not caught.
OnGeneratorFailureRaised == [ text |-> "", audio |-> NoAudio, raised |-> "Exception" ]

\* The except branch of generate_patient_response.
OnGeneratorFailure == [ text |-> FallbackText, audio |-> NoAudio, raised |-> "none" ]

\* Mutant of PatientText: the action descriptions are taken out of the text
\* before it is returned.
PatientTextCleaned(outcome) ==
    IF outcome.text = "*sighs* I am tired" THEN "I am tired" ELSE outcome.text

\* patient_text = response.choices[0].message.content
PatientText(outcome) == outcome.text

\* generate_patient_response: whether text_to_speech was called, which is
\* when voice is requested and the generator has answered, and how it ended.
Speech(include_voice, outcome, tts_ok) ==
    IF include_voice /\ outcome.ok
    THEN (IF tts_ok THEN "spoken" ELSE "failed")
    ELSE "none"

\* AIPatientSimulator.generate_patient_response, given what the generator and
\* the speech service do: the (patient_text, patient_audio) returned, the
\* exception that leaves the call and the request that was sent.
generate_patient_response(config, conversation_history, rapport, openness, include_voice, outcome, tts_ok) ==
    LET system_prompt == build_patient_prompt(config, rapport, openness)
        request == ChatMessages(system_prompt, conversation_history)
        result ==
            IF outcome.ok
            THEN [ text |-> PatientText(outcome),
                   audio |-> IF include_voice
                             THEN text_to_speech(PatientText(outcome),
                                                 select_patient_voice(config), tts_ok)
                             ELSE NoAudio,
                   raised |-> "none" ]
            ELSE OnGeneratorFailure
    IN  [ text |-> result.text, audio |-> result.audio,
          raised |-> result.raised, request |-> request ]

----------------------------------------------------------------------------
(* The session: st.session_state and the handlers of one script run *)

\* The longest conversation the model follows.
MaxMessages == 9

\* What the therapist types into the chat input.
TypedInputs ==
    { "I HEAR you",
      "evidence?",
      "  " }

\* The voice_input query parameter the page may be opened with; "" is none.
QueryInputs ==
    { "",
      "okay" }

\* st.session_state.rapport_level = 5.0
DefaultRapport == 5 * Scale

\* Mutant of DefaultOpenness: openness is set to the default of rapport.
DefaultOpennessAsRapport == 5 * Scale

\* st.session_state.patient_openness = 3.0
DefaultOpenness == 3 * Scale

NoScores == [technique \in Techniques |-> 0]

\* The record of a script run: the operation, the session as it was when the
\* run began (active or not, the length of the history, rapport and
\* openness), the submitted text and its entry point, the exception that ended
\* the run, the engine update, the generator call with its request and the
\* text the generator answered, and what became of the speech synthesis.
Event(op, entry, text, raised, updated, techniques, rapport_change, generated, gen_ok, request, output, speech) ==
    [ op |-> op, was_active |-> session_active,
      before |-> [ len |-> Len(messages), rapport |-> rapport_level,
                   openness |-> patient_openness ],
      entry |-> entry, text |-> text, raised |-> raised,
      updated |-> updated, techniques |-> techniques,
      rapport_change |-> rapport_change, generated |-> generated,
      gen_ok |-> gen_ok, request |-> request, output |-> output,
      speech |-> speech ]

PlainEvent(op) ==
    Event(op, "none", "", "none", FALSE, NoScores, 0, FALSE, FALSE, << >>, "", "none")

\* Session state initialization (the script's first lines), and the URL the
\* page is opened with.
Init ==
    /\ messages = << >>
    /\ patient_config = NoConfig
    /\ session_active = FALSE
    /\ rapport_level = DefaultRapport
    /\ patient_openness = DefaultOpenness
    /\ voice_mode = FALSE
    /\ voice_input = ""
    /\ patient_audio = << >>
    /\ query_voice_input \in QueryInputs
    /\ show_actions = TRUE
    /\ engine_turns = 0
    /\ engine_traits = CoreTraits
    /\ utterance = << >>
    /\ event = PlainEvent("init")

\* main: "if voice_input and voice_input != st.session_state.voice_input"
VoicePending ==
    /\ query_voice_input # ""
    /\ query_voice_input # voice_input

\* st.session_state[f"patient_audio_{index}"] = audio, "if patient_audio"
StoreAudio(audio_store, index, audio) ==
    IF audio # NoAudio THEN (index :> audio) @@ audio_store ELSE audio_store

\* Mutant of Texts: the texts of the history as it was before its last entry.
TextsBeforeLast(msgs) == [i \in 1..(Len(msgs) - 1) |-> msgs[i][2]]

\* [msg[1] for msg in st.session_state.messages]
Texts(msgs) == [i \in 1..Len(msgs) |-> msgs[i][2]]

\* handle_therapist_response with no patient loaded: the message is appended
\* and patient_config.core_traits raises AttributeError.
HandleWithoutPatient(therapist_message, entry) ==
    /\ messages' = Append(messages, << "therapist", therapist_message >>)
    /\ event' = Event("turn", entry, therapist_message, "AttributeError", FALSE,
                      analyze_response(therapist_message), 0, FALSE, FALSE, << >>, "",
                      "none")
    /\ UNCHANGED << patient_config, session_active, rapport_level,
                    patient_openness, voice_mode, patient_audio,
                    query_voice_input, show_actions, engine_turns, engine_traits, utterance >>

\* handle_therapist_response with a patient loaded.  Each value the handler
\* computes is bound once, in the order the code computes it.
HandleWithPatient(therapist_message, entry, outcome, tts_ok) ==
    \E with_therapist \in { Append(messages, << "therapist", therapist_message >>) } :
    \E techniques \in { analyze_response(therapist_message) } :
    \E rapport_change \in
           { calculate_rapport_change(techniques, Config(patient_config).core_traits) } :
    \E new_rapport \in { UpdateRapport(rapport_level, rapport_change) } :
    \E new_openness \in { UpdateOpenness(patient_openness, rapport_change) } :
    \E reply \in { generate_patient_response(Config(patient_config),
                       Texts(with_therapist), new_rapport, new_openness,
                       voice_mode, outcome, tts_ok) } :
    \E with_patient \in { Append(with_therapist, << "patient", reply.text >>) } :
        /\ rapport_level' = new_rapport
        /\ patient_openness' = new_openness
        /\ messages' = IF reply.raised = "none" THEN with_patient ELSE with_therapist
        /\ patient_audio' =
               IF reply.raised = "none"
               THEN StoreAudio(patient_audio, Len(with_patient) - 1, reply.audio)
               ELSE patient_audio
        /\ event' = Event("turn", entry, therapist_message, reply.raised, TRUE,
                          techniques, rapport_change, TRUE, outcome.ok,
                          reply.request, outcome.text,
                          Speech(voice_mode, outcome, tts_ok))
        /\ UNCHANGED << patient_config, session_active, voice_mode,
                        query_voice_input, show_actions, engine_turns, engine_traits, utterance >>

\* handle_therapist_response
handle_therapist_response(therapist_message, entry, outcome, tts_ok) ==
    /\ Len(messages) + 2 <= MaxMessages
    /\ IF patient_config = NoConfig
       THEN HandleWithoutPatient(therapist_message, entry)
       ELSE HandleWithPatient(therapist_message, entry, outcome, tts_ok)

\* main: the voice input of the URL is handled before anything is rendered.
VoiceInput ==
    /\ VoicePending
    /\ voice_input' = query_voice_input
    /\ \E outcome \in GeneratorOutcomes, tts_ok \in BOOLEAN :
           handle_therapist_response(query_voice_input, "voice", outcome, tts_ok)

\* render_therapy_interface: the chat input (text mode) or the text area and
\* its button (voice mode); both are rendered only in an active session.
\* The therapist types one of the inputs.
TypedInputFrom(inputs) ==
    /\ ~VoicePending
    /\ session_active
    /\ patient_config # NoConfig
    /\ \E text \in inputs, outcome \in GeneratorOutcomes, tts_ok \in BOOLEAN :
           /\ IF voice_mode THEN Strip(Chars(text)) # << >> ELSE text # ""
           /\ handle_therapist_response(text, "typed", outcome, tts_ok)
    /\ UNCHANGED voice_input

TypedInput == TypedInputFrom(TypedInputs)

\* main: the "Enable Voice Mode" checkbox
ToggleVoiceMode ==
    /\ ~VoicePending
    /\ voice_mode' = ~voice_mode
    /\ event' = PlainEvent("voice_mode")
    /\ UNCHANGED << messages, patient_config, session_active, rapport_level,
                    patient_openness, voice_input, patient_audio,
                    query_voice_input, show_actions, engine_turns, engine_traits, utterance >>

\* Mutant of ActiveAfterLoad: a load leaves a running session running.
ActiveAfterLoadKept == session_active

\* render_template_selection: st.session_state.session_active = False
ActiveAfterLoad == FALSE

\* render_template_selection: the "Load Patient" button
LoadPatient ==
    /\ ~VoicePending
    /\ \E selected_template \in TemplateNames :
           patient_config' = selected_template
    /\ messages' = << >>
    /\ rapport_level' = DefaultRapport
    /\ patient_openness' = DefaultOpenness
    /\ session_active' = ActiveAfterLoad
    /\ event' = PlainEvent("load")
    /\ UNCHANGED << voice_mode, voice_input, patient_audio, query_voice_input, show_actions,
                    engine_turns, engine_traits, utterance >>

\* Mutant of OpeningHistory: the texts on screen are sent with the opening.
OpeningHistoryKept == Texts(messages)

\* start_session: the conversation history of the opening generation, []
OpeningHistory == << >>

\* start_session, behind the "Start Therapy Session" button
StartSession ==
    /\ ~VoicePending
    /\ patient_config # NoConfig
    /\ ~session_active
    /\ \E outcome \in GeneratorOutcomes, tts_ok \in BOOLEAN :
           \E reply \in { generate_patient_response(Config(patient_config),
                              OpeningHistory, DefaultRapport, DefaultOpenness,
                              voice_mode, outcome, tts_ok) } :
               /\ messages' = IF reply.raised = "none"
                              THEN << << "patient", reply.text >> >>
                              ELSE << >>
               /\ patient_audio' = IF reply.raised = "none"
                                   THEN StoreAudio(patient_audio, 0, reply.audio)
                                   ELSE patient_audio
               /\ event' = Event("start", "none", "", reply.raised, FALSE,
                                 NoScores, 0, TRUE, outcome.ok, reply.request,
                                 outcome.text, Speech(voice_mode, outcome, tts_ok))
    /\ session_active' = TRUE
    /\ rapport_level' = DefaultRapport
    /\ patient_openness' = DefaultOpenness
    /\ UNCHANGED << patient_config, voice_mode, voice_input, query_voice_input, show_actions,
                    engine_turns, engine_traits, utterance >>

\* Mutant of EndSession: ending the session also empties the conversation and
\* puts rapport and openness back to their defaults.
EndSessionClearing ==
    /\ ~VoicePending
    /\ patient_config # NoConfig
    /\ session_active
    /\ session_active' = FALSE
    /\ messages' = << >>
    /\ rapport_level' = DefaultRapport
    /\ patient_openness' = DefaultOpenness
    /\ event' = PlainEvent("end")
    /\ UNCHANGED << patient_config, voice_mode, voice_input, patient_audio,
                    query_voice_input, show_actions, engine_turns, engine_traits, utterance >>

\* render_session_controls: the "End Session" button
EndSession ==
    /\ ~VoicePending
    /\ patient_config # NoConfig
    /\ session_active
    /\ session_active' = FALSE
    /\ event' = PlainEvent("end")
    /\ UNCHANGED << messages, patient_config, rapport_level, patient_openness,
                    voice_mode, voice_input, patient_audio, query_voice_input, show_actions,
                    engine_turns, engine_traits, utterance >>

\* Mutant of ResetSession: the reset also unloads the patient.
ResetSessionUnloading ==
    /\ ~VoicePending
    /\ patient_config # NoConfig
    /\ session_active
    /\ messages' = << >>
    /\ rapport_level' = DefaultRapport
    /\ patient_openness' = DefaultOpenness
    /\ patient_config' = NoConfig
    /\ event' = PlainEvent("reset")
    /\ UNCHANGED << session_active, voice_mode, voice_input,
                    patient_audio, query_voice_input, show_actions, engine_turns, engine_traits, utterance >>

\* render_session_controls: the "Reset" button
ResetSession ==
    /\ ~VoicePending
    /\ patient_config # NoConfig
    /\ session_active
    /\ messages' = << >>
    /\ rapport_level' = DefaultRapport
    /\ patient_openness' = DefaultOpenness
    /\ event' = PlainEvent("reset")
    /\ UNCHANGED << patient_config, session_active, voice_mode, voice_input,
                    patient_audio, query_voice_input, show_actions, engine_turns, engine_traits, utterance >>

\* render_session_controls: the "Show patient actions" checkbox
ToggleShowActions ==
    /\ ~VoicePending
    /\ show_actions' = ~show_actions
    /\ event' = PlainEvent("show_actions")
    /\ UNCHANGED << messages, patient_config, session_active, rapport_level,
                    patient_openness, voice_mode, voice_input, patient_audio,
                    query_voice_input, engine_turns, engine_traits, utterance >>

\* render_therapy_interface: what the conversation shows, entry by entry;
\* a patient entry goes through process_actions, a therapist entry is shown
\* as it is.
Rendered ==
    [ i \in 1..Len(messages) |->
        IF messages[i][1] = "patient"
        THEN process_actions(Chars(messages[i][2]), show_actions)
        ELSE Chars(messages[i][2]) ]

\* The session in text mode: the voice-mode checkbox is left as it starts.
Next ==
    \/ VoiceInput
    \/ TypedInput
    \/ LoadPatient
    \/ StartSession
    \/ EndSession
    \/ ResetSession

Spec == Init /\ [][Next]_vars

\* The number of therapist turns of a conversation the voice specification
\* follows.
MaxVoiceTurns == 1

\* The page is opened without a voice_input parameter.
InitVoice ==
    /\ Init
    /\ query_voice_input = ""

\* What the therapist types in the voice specification.
VoiceModeInputs == { "I HEAR you", "  " }

\* A therapist turn typed into the text area of voice mode or the chat input.
VoiceModeTurn ==
    /\ Len(messages) \div 2 < MaxVoiceTurns
    /\ TypedInputFrom(VoiceModeInputs)

\* The session with its two checkboxes: voice mode and patient audio, shown
\* or hidden actions.
NextVoice ==
    \/ ToggleVoiceMode
    \/ ToggleShowActions
    \/ VoiceModeTurn
    \/ LoadPatient
    \/ StartSession

SpecVoice == InitVoice /\ [][NextVoice]_vars


----------------------------------------------------------------------------
(* The rapport engine on its own: the update of handle_therapist_response,  *)
(* turn after turn, for any patient traits and any technique scores.        *)

\* The largest value of a trait.
MaxTrait == 10

TraitValues == 0..MaxTrait

\* The number of engine updates the model follows.
MaxEngineTurns == 2

\* The scores of a message that matches kv validation, ke empathy,
\* ka acceptance and kc cbt keywords.
ScoresOf(kv, ke, ka, kc) ==
    [ NoScores EXCEPT
        !.validation = (kv * Scale) \div Len(THERAPEUTIC_TECHNIQUES.validation),
        !.empathy = (ke * Scale) \div Len(THERAPEUTIC_TECHNIQUES.empathy),
        !.acceptance = (ka * Scale) \div Len(THERAPEUTIC_TECHNIQUES.acceptance),
        !.cbt = (kc * Scale) \div Len(THERAPEUTIC_TECHNIQUES.cbt) ]

\* Score vectors: none, one keyword of one technique, the scenario of two
\* validation keywords and one empathy keyword, every supportive keyword,
\* every cbt keyword, every keyword, and a dict that has one key only.
EngineScores ==
    { ScoresOf(0, 0, 0, 0), ScoresOf(1, 0, 0, 0), ScoresOf(0, 1, 0, 0),
      ScoresOf(0, 0, 1, 0), ScoresOf(0, 0, 0, 1), ScoresOf(2, 1, 0, 0),
      ScoresOf(5, 5, 5, 0), ScoresOf(0, 0, 0, 5), ScoresOf(5, 5, 5, 5),
      [ technique \in {"validation"} |-> Scale ] }

\* Rapport and openness before the first update: the defaults, a state close
\* to 0 and a state close to 10.
EngineStarts ==
    { << DefaultRapport, DefaultOpenness >>,
      << Scale \div 5, Scale \div 10 >>,
      << 10 * Scale - Scale \div 2, 10 * Scale - Scale \div 5 >> }

InitEngine ==
    /\ messages = << >>
    /\ patient_config = NoConfig
    /\ session_active = FALSE
    /\ \E start \in EngineStarts :
           /\ rapport_level = start[1]
           /\ patient_openness = start[2]
    /\ voice_mode = FALSE
    /\ voice_input = ""
    /\ patient_audio = << >>
    /\ query_voice_input = ""
    /\ show_actions = TRUE
    /\ engine_turns = 0
    /\ engine_traits \in
           { [CoreTraits EXCEPT !.defensiveness = d, !.trust_level = t] :
                 d \in TraitValues, t \in TraitValues }
    /\ utterance = << >>
    /\ event = PlainEvent("init")

\* handle_therapist_response: calculate_rapport_change and the update of
\* rapport_level and patient_openness
EngineTurn ==
    /\ engine_turns < MaxEngineTurns
    /\ \E techniques \in EngineScores :
       \E rapport_change \in { calculate_rapport_change(techniques, engine_traits) } :
           /\ rapport_level' = UpdateRapport(rapport_level, rapport_change)
           /\ patient_openness' = UpdateOpenness(patient_openness, rapport_change)
           /\ event' = Event("engine", "none", "", "none", TRUE, techniques,
                             rapport_change, FALSE, FALSE, << >>, "", "none")
    /\ engine_turns' = engine_turns + 1
    /\ UNCHANGED << messages, patient_config, session_active, voice_mode,
                    voice_input, patient_audio, query_voice_input, show_actions,
                    engine_traits, utterance >>

NextEngine == EngineTurn

SpecEngine == InitEngine /\ [][NextEngine]_vars

----------------------------------------------------------------------------
(* The classifier on its own: a message is put together piece by piece and  *)
(* analyze_response scores it.                                              *)

\* The pieces a message is put together from.
Fragments == { "valid", "VALID", "hear", "you", "feel", " " }

\* The number of pieces of the longest message.
MaxFragments == 3

InitClassifier ==
    /\ Init
    /\ query_voice_input = ""

\* The therapist goes on typing.
Compose ==
    /\ event.op = "init"
    /\ engine_turns < MaxFragments
    /\ \E fragment \in Fragments : utterance' = utterance \o Chars(fragment)
    /\ engine_turns' = engine_turns + 1
    /\ UNCHANGED << messages, patient_config, session_active, rapport_level,
                    patient_openness, voice_mode, voice_input, patient_audio,
                    query_voice_input, show_actions, engine_traits, event >>

\* analyze_response(therapist_message)
Classify ==
    /\ event.op = "init"
    /\ event' = Event("classify", "none", "", "none", FALSE,
                      AnalyzeChars(utterance), 0, FALSE, FALSE, << >>, "", "none")
    /\ UNCHANGED << messages, patient_config, session_active, rapport_level,
                    patient_openness, voice_mode, voice_input, patient_audio,
                    query_voice_input, show_actions, engine_turns, engine_traits, utterance >>

NextClassifier ==
    \/ Compose
    \/ Classify

SpecClassifier == InitClassifier /\ [][NextClassifier]_vars

----------------------------------------------------------------------------
(* The prompt on its own: a profile is constructed from the dataclasses and  *)
(* build_patient_prompt composes the prompt for it.                          *)

\* The values a trait is given when a profile is constructed, some of them
\* outside 0..10.
TraitInputs == { -1, 0, 2, 3, 4, 6, 7, 8, 10, 11 }

\* The core traits _traits_to_descriptions reads.
DescribedCoreTraits ==
    { "emotional_intensity", "mood_stability", "trust_level",
      "attachment_anxiety", "catastrophic_thinking", "self_criticism",
      "verbal_expressiveness", "defensiveness" }

\* CoreTraits(trait=value) for one trait, and the core traits of the templates.
CoreTraitsInputs ==
    { [CoreTraits EXCEPT ![trait] = value] :
          trait \in DescribedCoreTraits, value \in TraitInputs }
    \cup { PATIENT_TEMPLATES[template].core_traits : template \in TemplateNames }

\* DisorderTraits(), the disorder traits of the templates, and a value
\* outside 0..10.
DisorderTraitsInputs ==
    { DisorderTraits, [DisorderTraits EXCEPT !.hopelessness = 11] }
    \cup { PATIENT_TEMPLATES[template].disorder_traits : template \in TemplateNames }

\* The diagnoses of the templates, and one that names none of their disorders.
DiagnosisInputs ==
    { PATIENT_TEMPLATES[template].diagnosis : template \in TemplateNames }
    \cup { "Adjustment Disorder" }

NameInputs == { "", "Emma" }

InitDirective ==
    /\ Init
    /\ query_voice_input = ""

\* PatientConfig(...), CoreTraits(...) and DisorderTraits(...): the dataclass
\* constructors store the values they are given.
ConstructProfile ==
    /\ event.op = "init"
    /\ \E name \in NameInputs, diagnosis \in DiagnosisInputs,
          core_traits \in CoreTraitsInputs, disorder_traits \in DisorderTraitsInputs :
           event' = [ op |-> "construct", raised |-> "none",
                      config |-> PatientConfig(name, 19, "Female", diagnosis, "",
                                               core_traits, disorder_traits, "") ]
    /\ UNCHANGED << messages, patient_config, session_active, rapport_level,
                    patient_openness, voice_mode, voice_input, patient_audio,
                    query_voice_input, show_actions, engine_turns, engine_traits, utterance >>

\* build_patient_prompt(config, rapport, openness) for the profile constructed
ComposeDirective ==
    /\ event.op = "construct"
    /\ event.raised = "none"
    /\ event' = [ op |-> "directive", raised |-> "none", config |-> event.config,
                  prompt |-> build_patient_prompt(event.config, rapport_level,
                                                  patient_openness) ]
    /\ UNCHANGED << messages, patient_config, session_active, rapport_level,
                    patient_openness, voice_mode, voice_input, patient_audio,
                    query_voice_input, show_actions, engine_turns, engine_traits, utterance >>

NextDirective ==
    \/ ConstructProfile
    \/ ComposeDirective

SpecDirective == InitDirective /\ [][NextDirective]_vars

\* render_therapy_interface: the audio played with each entry of the
\* conversation, b"" for none.  The conversation is rendered in an active
\* session with a patient loaded; a patient entry at index i is played
\* st.session_state["patient_audio_i"] when voice mode is on and the key exists.
PlayedAudio ==
    [ i \in 1..Len(messages) |->
        IF /\ session_active
           /\ patient_config # NoConfig
           /\ messages[i][1] = "patient"
           /\ voice_mode
           /\ (i - 1) \in DOMAIN patient_audio
        THEN patient_audio[i - 1]
        ELSE NoAudio ]

----------------------------------------------------------------------------
(* Properties *)

\* The session is Active: a patient is loaded and the session is running.
Active == session_active /\ patient_config # NoConfig

\* The history the generator was called with in the last run: the reply is
\* appended after the call.
StoredAtCall ==
    IF event.raised = "none" THEN SubSeq(messages, 1, Len(messages) - 1)
    ELSE messages

\* The chat messages of the last request that carry the conversation.
Window == Tail(event.request)

\* C1: in every session state other than Active, a counterpart turn submitted
\* through any entry point (typed input or the voice-input path) is rejected
\* with an InvalidStateError and mutates nothing: history, rapport and
\* openness are as before the call.
C1_RejectedOutsideActive ==
    [][ (event'.op = "turn" /\ ~Active)
            => /\ event'.raised = "InvalidStateError"
               /\ messages' = messages
               /\ rapport_level' = rapport_level
               /\ patient_openness' = patient_openness ]_vars

\* C2: the rapport change of every update lies in [-1, 1], and rapport and
\* openness lie in [0, 10] in every reachable state.
C2_ChangeAndLevelsBounded ==
    /\ 0 <= rapport_level /\ rapport_level <= 10 * Scale
    /\ 0 <= patient_openness /\ patient_openness <= 10 * Scale
    /\ event.updated => (-Scale <= event.rapport_change /\ event.rapport_change <= Scale)

\* C2 witness: an update whose raw change exceeded 1 and whose result
\* exceeded 10, both clamped.
C2_Witness ==
    /\ event.updated
    /\ event.rapport_change = Scale
    /\ rapport_level = 10 * Scale
    /\ engine_traits.defensiveness = 0
    /\ engine_traits.trust_level = MaxTrait

\* C3: each history entry handed to the generator is labelled with the role
\* under which it is stored: a therapist entry as a "user" message, a patient
\* entry as an "assistant" message.
C3_RolesAsStored ==
    event.generated =>
        \A k \in 1..Len(Window) :
            LET stored == StoredAtCall[Len(StoredAtCall) - Len(Window) + k]
            IN  /\ (Window[k].role = "user") <=> (stored[1] = "therapist")
                /\ (Window[k].role = "assistant") <=> (stored[1] = "patient")

\* The scores analyze_response gives each text the therapist can submit.
ScoresOfText ==
    [ text \in TypedInputs \cup (QueryInputs \ {""}) |-> analyze_response(text) ]

\* C4: when the generator fails during a therapist turn, no exception leaves
\* the handler, the therapist's message and the fallback reply are appended
\* to the history, and the rapport change computed for that message is
\* applied to rapport and (halved) to openness.
C4_FallbackOnFailure ==
    [][ (event'.op = "turn" /\ event'.generated /\ ~event'.gen_ok)
            => /\ event'.raised = "none"
               /\ messages' = messages \o << << "therapist", event'.text >>,
                                             << "patient", FallbackText >> >>
               /\ event'.updated
               /\ event'.rapport_change =
                      calculate_rapport_change(ScoresOfText[event'.text],
                                               Config(patient_config).core_traits)
               /\ rapport_level' =
                      Max(0, Min(10 * Scale, rapport_level + event'.rapport_change))
               /\ 2 * patient_openness' =
                      Max(0, Min(20 * Scale,
                                 2 * patient_openness + event'.rapport_change)) ]_vars

\* C4 witness: a turn whose generation failed and whose message changed
\* rapport.
C4_Witness ==
    /\ event.op = "turn"
    /\ event.generated
    /\ ~event.gen_ok
    /\ event.rapport_change # 0
    /\ rapport_level # DefaultRapport
    /\ messages[Len(messages)] = << "patient", FallbackText >>

\* C5: a non-empty history opens with a patient utterance and roles
\* alternate: the entry at index i (from 0) is the patient's exactly when i
\* is even.
C5_PatientOpensAndAlternates ==
    \A i \in 1..Len(messages) :
        (messages[i][1] = "patient") <=> ((i - 1) % 2 = 0)

\* C6: reset always leaves the session in Idle (not Active) with an empty
\* history, rapport and openness at their defaults and the loaded profile
\* unchanged, so that no therapist turn can be submitted until the session is
\* started again.
C6_ResetReturnsToIdle ==
    [][ event'.op = "reset"
            => /\ ~session_active'
               /\ messages' = << >>
               /\ rapport_level' = DefaultRapport
               /\ patient_openness' = DefaultOpenness
               /\ patient_config' = patient_config ]_vars

\* C7 as claimed: while the session is Active, a load request does not
\* replace the profile and does not change history, rapport, openness or the
\* Active state.
C7_LoadIgnoredWhileActive ==
    [][ (event'.op = "load" /\ Active)
            => /\ patient_config' = patient_config
               /\ messages' = messages
               /\ rapport_level' = rapport_level
               /\ patient_openness' = patient_openness
               /\ session_active' ]_vars

\* C7 as amended: load is accepted in every session state, Active included;
\* it puts the selected template in place of the profile, empties the
\* history, sets rapport and openness to their defaults and leaves the
\* session not Active.
C7_LoadEndsSession ==
    [][ event'.op = "load"
            => /\ patient_config' \in TemplateNames
               /\ messages' = << >>
               /\ rapport_level' = DefaultRapport
               /\ patient_openness' = DefaultOpenness
               /\ ~session_active' ]_vars

\* C7 witness: a load made while the session was Active, with a conversation
\* under way, has ended the session.
C7_Witness ==
    /\ event.op = "load"
    /\ event.was_active
    /\ ~session_active
    /\ messages = << >>
    /\ patient_config \in TemplateNames

\* The score of a technique, 0 for a technique the scores do not have.
Score(technique_scores, technique) ==
    IF technique \in DOMAIN technique_scores THEN technique_scores[technique] ELSE 0

\* 1000 times the rapport change before it is clamped:
\* (positive_impact*2 - challenging_impact*0.5) * ((10 - defensiveness)/10)
\* * (trust_level/10), with positive_impact = 0.3 validation + 0.3 empathy
\* + 0.2 acceptance + 0.1 acknowledgment and challenging_impact = cbt +
\* reframing.
RawChangeTimes1000(technique_scores, traits) ==
    ( 6 * Score(technique_scores, "validation")
      + 6 * Score(technique_scores, "empathy")
      + 4 * Score(technique_scores, "acceptance")
      + 2 * Score(technique_scores, "acknowledgment")
      - 5 * (Score(technique_scores, "cbt") + Score(technique_scores, "reframing")) )
    * (10 - traits.defensiveness) * traits.trust_level

\* C8: the rapport change of an update is the raw change of the formula
\* clamped to [-1, 1]; the new rapport is rapport + change and the new
\* openness is openness + change/2, each clamped to [0, 10].  With two of five
\* validation keywords, one of five empathy keywords, trust 5 and
\* defensiveness 5, rapport 5.0 becomes 5.09 and openness 3.0 becomes 3.045.
C8_UpdateRule ==
    [][ event'.op = "engine"
            => LET raw == RawChangeTimes1000(event'.techniques, engine_traits)
                   change == event'.rapport_change
                   rapport_sum == rapport_level + change
                   openness_sum2 == 2 * patient_openness + change
               IN  /\ raw >= 1000 * Scale => change = Scale
                   /\ raw <= -1000 * Scale => change = -Scale
                   /\ (raw > -1000 * Scale /\ raw < 1000 * Scale)
                          => 1000 * change = raw
                   /\ rapport_sum <= 0 => rapport_level' = 0
                   /\ rapport_sum >= 10 * Scale => rapport_level' = 10 * Scale
                   /\ (rapport_sum > 0 /\ rapport_sum < 10 * Scale)
                          => rapport_level' = rapport_sum
                   /\ openness_sum2 <= 0 => patient_openness' = 0
                   /\ openness_sum2 >= 20 * Scale => patient_openness' = 10 * Scale
                   /\ (openness_sum2 > 0 /\ openness_sum2 < 20 * Scale)
                          => 2 * patient_openness' = openness_sum2
                   /\ ( /\ event'.techniques = ScoresOf(2, 1, 0, 0)
                        /\ engine_traits.trust_level = 5
                        /\ engine_traits.defensiveness = 5
                        /\ rapport_level = 5 * Scale
                        /\ patient_openness = 3 * Scale )
                          => /\ 100 * rapport_level' = 509 * Scale
                             /\ 1000 * patient_openness' = 3045 * Scale ]_vars

\* C8 witness: the scenario's update has been made from the defaults.
C8_Witness ==
    /\ event.op = "engine"
    /\ engine_turns = 1
    /\ event.techniques = ScoresOf(2, 1, 0, 0)
    /\ engine_traits.trust_level = 5
    /\ engine_traits.defensiveness = 5
    /\ 100 * event.rapport_change = 9 * Scale
    /\ 100 * rapport_level = 509 * Scale
    /\ 1000 * patient_openness = 3045 * Scale

\* Two characters are the same letter, whatever their case.
SameLetter(a, b) ==
    \/ a = b
    \/ \E n \in 1..Len(UpperCase) : {a, b} = {UpperCase[n], LowerCase[n]}

\* The keyword occurs in the message, whatever the case of the message.
Occurs(keyword, message) ==
    \E start \in 1..Len(message) :
        /\ start + Len(keyword) - 1 <= Len(message)
        /\ \A j \in 1..Len(keyword) : SameLetter(message[start + j - 1], keyword[j])

\* The keywords of a technique that occur in the message.
KeywordsFound(technique, message) ==
    { keyword \in { THERAPEUTIC_TECHNIQUES[technique][n] :
                        n \in 1..Len(THERAPEUTIC_TECHNIQUES[technique]) } :
          Occurs(Chars(keyword), message) }

\* C9: the score of every technique is the number of its distinct keywords
\* that occur in the message, whatever the case, divided by the number of its
\* keywords; it lies in [0, 1] and is 0 exactly when no keyword occurs.
C9_ScoreIsShareOfKeywords ==
    event.op = "classify" =>
        \A technique \in Techniques :
            LET score == event.techniques[technique]
                found == KeywordsFound(technique, utterance)
            IN  /\ score * Len(THERAPEUTIC_TECHNIQUES[technique])
                       = Cardinality(found) * Scale
                /\ 0 <= score /\ score <= Scale
                /\ (score = 0) <=> (found = {})

\* C9 witness: "validVALID" has one keyword of validation, twice and in both
\* cases, and scores one fifth.
C9_Witness ==
    /\ event.op = "classify"
    /\ utterance = Chars("valid") \o Chars("VALID")
    /\ 5 * event.techniques.validation = Scale
    /\ event.techniques.empathy = 0

\* C10: the generator receives the last min(6, n) of the n entries the
\* history has when it is called, in their order, and the n entries are
\* still in the history after the run.
C10_LastSixAndHistoryKept ==
    [][ event'.generated
            => LET history == IF event'.op = "turn"
                              THEN Append(messages, << "therapist", event'.text >>)
                              ELSE << >>
                   n == Len(history)
                   k == IF n < 6 THEN n ELSE 6
                   window == Tail(event'.request)
               IN  /\ Len(window) = k
                   /\ \A i \in 1..k :
                          window[i].content[Len(window[i].content)]
                              = history[n - k + i][2]
                   /\ Len(messages') >= n
                   /\ SubSeq(messages', 1, n) = history ]_vars

\* C10 witness: in a session the patient opened, the generator was called
\* with a history of eight entries and received six; the history has nine
\* entries after the run.
C10_Witness ==
    /\ event.generated
    /\ messages[1][1] = "patient"
    /\ Len(messages) = 9
    /\ Len(event.request) = 1 + HistoryWindow

\* C11: immediately after each of load, start and reset, rapport is 5.0 and
\* openness is 3.0 whatever they were before, and no entry of the previous
\* conversation remains in the history: the history is empty, or (after start)
\* holds only the opening statement generated by that start.
C11_DefaultsAndFreshHistory ==
    [][ event'.op \in {"load", "start", "reset"}
            => /\ rapport_level' = 5 * Scale
               /\ patient_openness' = 3 * Scale
               /\ \/ messages' = << >>
                  \/ /\ event'.op = "start"
                     /\ event'.generated
                     /\ Len(event'.request) = 1
                     /\ Len(messages') = 1
                     /\ messages'[1][1] = "patient" ]_vars

\* C11 witness: a reset made in a conversation of several entries whose
\* rapport and openness had moved away from the defaults.
C11_Witness ==
    /\ event.op = "reset"
    /\ event.before.len > 2
    /\ event.before.rapport # 5 * Scale
    /\ event.before.openness # 3 * Scale
    /\ rapport_level = 5 * Scale
    /\ patient_openness = 3 * Scale
    /\ messages = << >>

\* C12: rapport and openness are changed by one engine update per completed
\* therapist turn, whatever the generator answers, and by nothing else apart
\* from the resets to the defaults: ending the session leaves them as they
\* are, and the opening generation of a start leaves them at the defaults.
C12_OneUpdatePerTurn ==
    [][ /\ (event'.op = "turn" /\ event'.raised = "none")
            => LET change ==
                       calculate_rapport_change(ScoresOfText[event'.text],
                                                Config(patient_config).core_traits)
               IN  /\ event'.rapport_change = change
                   /\ rapport_level' =
                          Max(0, Min(10 * Scale, rapport_level + change))
                   /\ 2 * patient_openness' =
                          Max(0, Min(20 * Scale, 2 * patient_openness + change))
        /\ (event'.op = "turn" /\ event'.raised # "none")
            => /\ rapport_level' = rapport_level
               /\ patient_openness' = patient_openness
        /\ event'.op = "end"
            => /\ rapport_level' = rapport_level
               /\ patient_openness' = patient_openness
        /\ event'.op \in {"load", "start", "reset"}
            => /\ rapport_level' = 5 * Scale
               /\ patient_openness' = 3 * Scale ]_vars

\* C12 witness: a completed turn whose generator answered moved rapport by
\* the change of its message once, and openness by half of it.
C12_Witness ==
    /\ event.op = "turn"
    /\ event.raised = "none"
    /\ event.gen_ok
    /\ event.rapport_change > 0
    /\ rapport_level = event.before.rapport + event.rapport_change
    /\ 2 * patient_openness = 2 * event.before.openness + event.rapport_change

\* 1 when the condition holds, 0 otherwise.
Crossed(cond) == IF cond THEN 1 ELSE 0

\* The elements of a sequence.
Range(seq) == { seq[i] : i \in 1..Len(seq) }

\* The disorder category of each diagnosis: those of the three built-in
\* patients, and none for a diagnosis that is not recognized.
DiagnosisCategory ==
    ( "Borderline Personality Disorder" :> "borderline" @@
      "Major Depressive Disorder" :> "depressive" @@
      "Generalized Anxiety Disorder" :> "anxiety" @@
      "Adjustment Disorder" :> "none" )

\* The number of disorder traits relevant to the category that cross their
\* threshold.
CrossedDisorderThresholds(traits, category) ==
    CASE category = "borderline" ->
             Crossed(traits.abandonment_sensitivity > 6)
             + Crossed(traits.identity_instability > 6)
             + Crossed(traits.impulsivity > 6)
      [] category = "depressive" ->
             Crossed(traits.hopelessness > 6)
             + Crossed(traits.energy_level < 4)
             + Crossed(traits.anhedonia > 6)
      [] category = "anxiety" ->
             Crossed(traits.worry_intensity > 6)
             + Crossed(traits.physical_anxiety > 6)
             + Crossed(traits.perfectionism > 7)
      [] OTHER -> 0

\* C13: the disorder section of the prompt has one clause for each disorder
\* trait relevant to the category of the diagnosis that crosses its threshold,
\* and the "Mild symptoms" fallback only when none is crossed; for a diagnosis
\* that is not recognized the fallback appears and nothing is raised.
C13_DisorderClausesByCategory ==
    event.op = "directive" =>
        LET crossed == CrossedDisorderThresholds(event.config.disorder_traits,
                                                 DiagnosisCategory[event.config.diagnosis])
            section == event.prompt.disorder_descriptions
        IN  /\ event.raised = "none"
            /\ IF crossed = 0
               THEN section = << "Mild symptoms" >>
               ELSE /\ Len(section) = crossed
                    /\ "Mild symptoms" \notin Range(section)

\* A trait value is in the range of the traits.
InTraitRange(value) == 0 <= value /\ value <= 10

\* Every trait of the record is in range.
AllInTraitRange(traits) == \A trait \in DOMAIN traits : InTraitRange(traits[trait])

\* C14: constructing a profile with a core or disorder trait outside [0, 10],
\* or with an empty name, fails with a ConfigurationError and yields no
\* profile.
C14_ConstructionValidated ==
    ( /\ event.op = "construct"
      /\ \/ event.config.name = ""
         \/ ~AllInTraitRange(event.config.core_traits)
         \/ ~AllInTraitRange(event.config.disorder_traits) )
        => event.raised = "ConfigurationError"

\* The number of core-trait rules of the list that the traits cross.
CrossedCoreThresholds(traits) ==
    Crossed(traits.emotional_intensity > 7)
    + Crossed(traits.emotional_intensity < 3)
    + Crossed(traits.mood_stability < 3)
    + Crossed(traits.trust_level < 4)
    + Crossed(traits.attachment_anxiety > 7)
    + Crossed(traits.catastrophic_thinking > 7)
    + Crossed(traits.self_criticism > 7)
    + Crossed(traits.verbal_expressiveness < 4 \/ traits.verbal_expressiveness > 7)
    + Crossed(traits.defensiveness > 7)

\* C19: for core traits in [0, 10], the personality section of the prompt has
\* one clause for each rule of the list that is crossed (emotional_intensity
\* < 3 among them), and the "Generally typical patterns" fallback exactly when
\* none is crossed.
C19_CoreClausesByRule ==
    (event.op = "directive" /\ AllInTraitRange(event.config.core_traits)) =>
        LET crossed == CrossedCoreThresholds(event.config.core_traits)
            section == event.prompt.core_descriptions
        IN  IF crossed = 0
            THEN section = << "Generally typical patterns" >>
            ELSE /\ Len(section) = crossed
                 /\ "Generally typical patterns" \notin Range(section)

\* C15: with trust_level 0 the rapport change of every update is exactly 0,
\* whatever the technique scores, and the update leaves rapport and openness
\* as they were.
C15_NoTrustNoChange ==
    [][ (event'.op = "engine" /\ engine_traits.trust_level = 0)
            => /\ event'.rapport_change = 0
               /\ rapport_level' = rapport_level
               /\ patient_openness' = patient_openness ]_vars

\* C15 witness: an update for a message that matches every supportive
\* keyword, made for a patient of trust 0 and defensiveness 0.
C15_Witness ==
    /\ event.op = "engine"
    /\ engine_traits.trust_level = 0
    /\ engine_traits.defensiveness = 0
    /\ event.techniques = ScoresOf(5, 5, 5, 0)
    /\ event.rapport_change = 0
    /\ rapport_level = event.before.rapport
    /\ patient_openness = event.before.openness

\* C16: start moves a session with a loaded profile from not Active to Active
\* and makes one opening generation with an empty history; when it completes
\* the history is exactly one entry, a patient utterance: the generator's
\* text or the fallback.
C16_StartOpensWithPatient ==
    [][ event'.op = "start"
            => /\ patient_config # NoConfig
               /\ ~session_active
               /\ session_active'
               /\ patient_config' = patient_config
               /\ event'.generated
               /\ Tail(event'.request) = << >>
               /\ Len(messages') = 1
               /\ messages'[1][1] = "patient"
               /\ messages'[1][2] = (IF event'.gen_ok THEN event'.output
                                     ELSE "I'm having trouble responding right now.") ]_vars

\* C16 witness: a session that had been ended with its conversation on
\* screen was started again, the generator failed, and the history is the
\* fallback alone.
C16_Witness ==
    /\ event.op = "start"
    /\ event.before.len > 1
    /\ ~event.gen_ok
    /\ session_active
    /\ messages = << << "patient", "I'm having trouble responding right now." >> >>

\* The qualitative band of a level: 5 for >= 8, 4 for >= 6, 3 for >= 4,
\* 2 for >= 2, 1 otherwise.
Band(level) ==
    IF level >= 8 * Scale THEN 5
    ELSE IF level >= 6 * Scale THEN 4
    ELSE IF level >= 4 * Scale THEN 3
    ELSE IF level >= 2 * Scale THEN 2
    ELSE 1

\* C18: the prompt sent to the generator carries, for rapport and for
\* openness, the phrase of the band the level falls in (one of five, with
\* boundaries >= 8, >= 6, >= 4, >= 2).
C18_FiveBands ==
    event.generated =>
        LET prompt == event.request[1].content
        IN  /\ "rapport_band" \in DOMAIN prompt
            /\ "openness_band" \in DOMAIN prompt
            /\ prompt.rapport_band = Band(rapport_level)
            /\ prompt.openness_band = Band(patient_openness)

\* C20: a blank therapist message submitted in an active session raises
\* nothing: the score of every technique is 0, the rapport change is 0,
\* rapport and openness stay as they were, and the turn completes with the
\* therapist entry and the patient entry appended.
C20_BlankMessageChangesNothing ==
    [][ ( /\ event'.op = "turn"
          /\ Active
          /\ \A i \in 1..Len(Chars(event'.text)) : Chars(event'.text)[i] = " " )
            => /\ event'.raised = "none"
               /\ \A technique \in Techniques : event'.techniques[technique] = 0
               /\ event'.rapport_change = 0
               /\ rapport_level' = rapport_level
               /\ patient_openness' = patient_openness
               /\ Len(messages') = Len(messages) + 2
               /\ SubSeq(messages', 1, Len(messages)) = messages
               /\ messages'[Len(messages) + 1] = << "therapist", event'.text >>
               /\ messages'[Len(messages) + 2][1] = "patient" ]_vars

\* C20 witness: a blank message was submitted after rapport and openness had
\* left their defaults, and the turn completed without touching them.
C20_Witness ==
    /\ event.op = "turn"
    /\ event.was_active
    /\ event.text = "  "
    /\ event.raised = "none"
    /\ event.before.rapport > 5 * Scale
    /\ rapport_level = event.before.rapport
    /\ patient_openness = event.before.openness
    /\ Len(messages) = event.before.len + 2
    /\ messages[Len(messages) - 1] = << "therapist", "  " >>

\* C17: every utterance is stored with its action descriptions intact.  The
\* patient text stored by a run is the generator's output character for
\* character (or the fallback when the generator failed), also when the text
\* is spoken; a therapist turn leaves the entries before it as they were; and
\* the two checkboxes (shown or hidden actions, voice mode) change no entry.
C17_StoredWithMarkup ==
    [][ /\ (event'.generated /\ event'.raised = "none")
            => /\ messages'[Len(messages')][1] = "patient"
               /\ Chars(messages'[Len(messages')][2])
                      = Chars(IF event'.gen_ok THEN event'.output
                              ELSE "I'm having trouble responding right now.")
        /\ event'.op = "turn"
            => /\ Len(messages') > Len(messages)
               /\ SubSeq(messages', 1, Len(messages)) = messages
               /\ messages'[Len(messages) + 1] = << "therapist", event'.text >>
        /\ event'.op \in {"show_actions", "voice_mode"}
            => messages' = messages ]_vars

\* C17 witness: with voice mode on and actions hidden, the patient's reply
\* "*sighs* I am tired" is stored with its action, while the conversation
\* shows it, and the audio speaks it, without the action.
C17_Witness ==
    /\ event.op = "turn"
    /\ event.gen_ok
    /\ voice_mode
    /\ ~show_actions
    /\ messages[Len(messages)] = << "patient", "*sighs* I am tired" >>
    /\ Rendered[Len(messages)] = Chars("I am tired")
    /\ (Len(messages) - 1) \in DOMAIN patient_audio
    /\ patient_audio[Len(messages) - 1][2] = Chars("I am tired")

\* C21: the loaded profile is fixed for the session: a start, a therapist
\* turn, an end and a reset leave st.session_state.patient_config the
\* reference it was, to a template whose identity fields and traits are the
\* built-in ones; only a load replaces it, by the selected template as a whole.
C21_ProfileFixedUntilLoad ==
    [][ /\ event'.op \in {"start", "turn", "end", "reset"}
            => /\ patient_config' = patient_config
               /\ patient_config # NoConfig
                      => Config(patient_config') = PATIENT_TEMPLATES[patient_config]
        /\ patient_config' # patient_config
            => /\ event'.op = "load"
               /\ patient_config' \in TemplateNames
               /\ Config(patient_config') = PATIENT_TEMPLATES[patient_config'] ]_vars

\* C21 witness: a reset made after several turns with Emma, who is still the
\* loaded profile, with the name, the diagnosis and the traits of her template.
C21_Witness ==
    /\ event.op = "reset"
    /\ event.before.len > 4
    /\ patient_config = "emma_bpd"
    /\ Config(patient_config).name = "Emma"
    /\ Config(patient_config).core_traits.defensiveness = 8
    /\ Config(patient_config).diagnosis = "Borderline Personality Disorder"
    /\ Config(patient_config).disorder_traits.abandonment_sensitivity = 9

\* C22: within one therapist turn the utterance is appended, its scores are
\* computed, rapport and openness are updated, the prompt is composed, the
\* generator is called and the patient's reply is appended, in that order:
\* the prompt carries rapport and openness as they are after this turn's
\* update, the history sent to the generator ends with the utterance just
\* submitted, and the reply follows that utterance in the history.
C22_TurnOrder ==
    [][ (event'.op = "turn" /\ event'.generated)
            => LET n == Len(messages)
                   prompt == event'.request[1].content
                   last == event'.request[Len(event'.request)]
               IN  /\ event'.techniques = ScoresOfText[event'.text]
                   /\ event'.updated
                   /\ prompt.rapport = (rapport_level' * 10 + 15000) \div 30000
                   /\ prompt.openness = (patient_openness' * 10 + 15000) \div 30000
                   /\ Len(event'.request) > 1
                   /\ last.content[Len(last.content)] = event'.text
                   /\ Len(messages') = n + 2
                   /\ SubSeq(messages', 1, n) = messages
                   /\ messages'[n + 1] = << "therapist", event'.text >>
                   /\ messages'[n + 2][1] = "patient" ]_vars

\* C22 witness: a turn whose update moved rapport from one tenth to the next;
\* the prompt of that turn shows the new tenth, not the one the turn began
\* with, and the request ends with the submitted utterance.
C22_Witness ==
    /\ event.op = "turn"
    /\ event.generated
    /\ event.request[1].content.rapport = (rapport_level * 10 + 15000) \div 30000
    /\ event.request[1].content.rapport
           # (event.before.rapport * 10 + 15000) \div 30000
    /\ event.request[Len(event.request)].content = << TherapistPrefix, event.text >>
    /\ messages[Len(messages) - 1] = << "therapist", event.text >>

\* C24: ending the session changes the session state only: the session was
\* Active and is not afterwards, while the history, rapport, openness and the
\* loaded profile are exactly what they were, and stay in the session state.
C24_EndChangesStateOnly ==
    [][ event'.op = "end"
            => /\ session_active
               /\ ~session_active'
               /\ messages' = messages
               /\ rapport_level' = rapport_level
               /\ patient_openness' = patient_openness
               /\ patient_config' = patient_config
               /\ patient_config' # NoConfig ]_vars

\* C24 witness: a session ended after several turns; the history still has
\* its entries, and rapport and openness are still the moved values they had
\* when the button was pressed.
C24_Witness ==
    /\ event.op = "end"
    /\ ~session_active
    /\ Len(messages) > 4
    /\ event.before.len = Len(messages)
    /\ rapport_level # 5 * Scale
    /\ patient_openness # 3 * Scale
    /\ event.before.rapport = rapport_level
    /\ event.before.openness = patient_openness
    /\ patient_config \in TemplateNames

\* C26: for every patient whose traits lie in [0, 10], an update for a
\* message with no cbt keyword never lowers rapport or openness, and the
\* rapport change is strictly negative only when the cbt score is positive.
C26_OnlyCbtLowers ==
    [][ event'.op = "engine"
            => LET scores == event'.techniques
                   cbt == IF "cbt" \in DOMAIN scores THEN scores["cbt"] ELSE 0
               IN  /\ engine_traits.defensiveness \in 0..10
                   /\ engine_traits.trust_level \in 0..10
                   /\ cbt = 0
                          => /\ event'.rapport_change >= 0
                             /\ rapport_level' >= rapport_level
                             /\ patient_openness' >= patient_openness
                   /\ event'.rapport_change < 0 => cbt > 0
                   /\ (rapport_level' < rapport_level
                       \/ patient_openness' < patient_openness) => cbt > 0 ]_vars

\* C26 witness: a defensive, hardly trusting patient (defensiveness 9,
\* trust 1) hears a message with one validation keyword and no cbt keyword:
\* the change is positive and rapport and openness rise.
C26_Witness ==
    /\ event.op = "engine"
    /\ engine_traits.defensiveness = 9
    /\ engine_traits.trust_level = 1
    /\ event.techniques = ScoresOf(1, 0, 0, 0)
    /\ event.rapport_change > 0
    /\ rapport_level > event.before.rapport
    /\ patient_openness > event.before.openness

\* C25: when the generator answers and the speech synthesis of the answer
\* fails, the turn (or the start) still completes: the generator's own text,
\* not the fallback, is appended as the patient's entry, no audio is stored
\* by that run, and rapport and openness are what the same run gives with
\* voice mode off.
C25_SpeechFailureKeepsText ==
    [][ event'.speech = "failed"
            => /\ voice_mode
               /\ event'.gen_ok
               /\ event'.raised = "none"
               /\ event'.op \in {"turn", "start"}
               /\ Len(messages') = (IF event'.op = "turn" THEN Len(messages) + 2 ELSE 1)
               /\ messages'[Len(messages')] = << "patient", event'.output >>
               /\ event'.output # "I'm having trouble responding right now."
               /\ patient_audio' = patient_audio
               /\ IF event'.op = "turn"
                  THEN LET change ==
                               calculate_rapport_change(ScoresOfText[event'.text],
                                                        Config(patient_config).core_traits)
                       IN  /\ rapport_level' =
                                  Max(0, Min(10 * Scale, rapport_level + change))
                           /\ 2 * patient_openness' =
                                  Max(0, Min(20 * Scale, 2 * patient_openness + change))
                  ELSE /\ rapport_level' = 5 * Scale
                       /\ patient_openness' = 3 * Scale ]_vars

\* C25 witness: a therapist turn in voice mode whose reply could not be
\* spoken: the reply "*sighs* I am tired" ends the history, its index has no
\* audio, and rapport has moved by the turn's update.
C25_Witness ==
    /\ event.op = "turn"
    /\ event.speech = "failed"
    /\ voice_mode
    /\ messages[Len(messages)] = << "patient", "*sighs* I am tired" >>
    /\ (Len(messages) - 1) \notin DOMAIN patient_audio
    /\ rapport_level > event.before.rapport

\* C23: every audio clip played with an entry of the conversation was
\* synthesized from the patient utterance stored at that entry, in the voice
\* of the loaded patient: no entry is played with the audio of an earlier
\* conversation.
C23_AudioOfStoredUtterance ==
    \A i \in 1..Len(messages) :
        PlayedAudio[i] # << >>
            => PlayedAudio[i] = << select_patient_voice(Config(patient_config)),
                                   Strip(RemoveActions(Chars(messages[i][2]))) >>

====
